---- MODULE Spec2Model ----
(***************************************************************************)
(* The dotfiles installer (install.mjs) as a state machine over a          *)
(* filesystem with directories, regular files and symbolic links.          *)
(*                                                                         *)
(* A path is a sequence of names; every name of the model is one           *)
(* character long, so the string form of a path is its names separated by  *)
(* "/".  Strings the code handles as strings (config lines, relative       *)
(* paths in the skip test) are sequences of one-character strings.         *)
(***************************************************************************)
EXTENDS Integers, Sequences, FiniteSets, TLC

VARIABLES
    fs,        \* the filesystem: existing absolute path -> node
    fs0,       \* the filesystem before the first run
    conf,      \* symlink-dirs.conf: [exists, text]
    rev,       \* the order in which readdirSync lists a directory
    pc,        \* position of the current run
    run,       \* number of the current run
    dirPaths,  \* install.mjs dirPaths, a sequence of strings
    di,        \* index of the next entry of the directory-link loop
    files,     \* the array getAllFiles(HOME_DIR) returned
    fi,        \* index of the next file of the file-link loop
    ei,        \* index of the next pair of the extra-link loop
    last,      \* what the last loop iteration did
    made,      \* destination paths where this run created a symlink
    applied,   \* directory-link entries this run applied
    prev,      \* outcome of the previous run
    fault,     \* "off", "armed" (a filesystem call of this run may fail)
               \* or "hit" (one has failed)
    log,       \* the symbolic links this run created, in order
    arg,       \* input drawn for a pure function of the installer
    ret        \* its result once applied: [done, val]

inst == <<fs, fs0, conf, rev, pc, run, dirPaths, di, files, fi, ei, last,
          made, applied, prev, fault, log>>

pure == <<arg, ret>>

vars == <<inst, pure>>

----------------------------------------------------------------------------
(* Bounds *)

\* symbolic links followed while resolving one path before ELOOP
MaxHops == 3
\* number of installer runs in one behaviour
MaxRuns == 2

----------------------------------------------------------------------------
(* Paths and strings *)

SLASH == "/"
NL == "\n"
HASH == "#"
SPACE == " "

\* join(DOTFILES_DIR, "home")
HOME_DIR == <<"s">>
\* process.env.HOME
HOME == <<"h">>

\* .claude/CLAUDE.md -> .codex/AGENTS.md, .claude/skills -> .codex/skills
EXTRA_SYMLINKS ==
    << [src |-> <<"c", "m">>, target |-> <<"x", "g">>],
       [src |-> <<"c", "k">>, target |-> <<"x", "k">>] >>

IsPrefix(p, q) == Len(p) <= Len(q) /\ SubSeq(q, 1, Len(p)) = p
IsStrictPrefix(p, q) == Len(p) < Len(q) /\ SubSeq(q, 1, Len(p)) = p

\* path.dirname of a non-root absolute path
dirname(p) == SubSeq(p, 1, Len(p) - 1)

\* path.relative(from, to) for to below from
relative(from, to) == SubSeq(to, Len(from) + 1, Len(to))

\* the string form of a relative path
RECURSIVE PathString(_)
PathString(p) ==
    IF p = <<>> THEN <<>>
    ELSE IF Len(p) = 1 THEN <<p[1]>>
    ELSE <<p[1], SLASH>> \o PathString(Tail(p))

\* path.join(base, str): the names of str appended to base
join(base, str) == base \o SelectSeq(str, LAMBDA c : c # SLASH)

\* String.prototype.startsWith
startsWith(s, t) == Len(t) <= Len(s) /\ SubSeq(s, 1, Len(t)) = t

----------------------------------------------------------------------------
(* Filesystem *)

DirNode == [kind |-> "dir", to |-> <<>>]
FileNode == [kind |-> "file", to |-> <<>>]
LinkNode(t) == [kind |-> "link", to |-> t]

\* Resolve rest from the directory cur; follow says whether a symbolic link
\* in the last position is followed.  st is "ok" (p exists), "noent" (the
\* parent exists and p is free) or "err" (ENOENT above, ENOTDIR, ELOOP).
RECURSIVE Walk(_, _, _, _, _)
Walk(f, cur, rest, follow, hops) ==
    IF rest = <<>> THEN [st |-> "ok", p |-> cur]
    ELSE LET n == Append(cur, Head(rest))
             isLast == Len(rest) = 1
         IN  IF n \notin DOMAIN f
             THEN [st |-> IF isLast THEN "noent" ELSE "err", p |-> n]
             ELSE IF f[n].kind = "dir"
             THEN Walk(f, n, Tail(rest), follow, hops)
             ELSE IF f[n].kind = "file"
             THEN [st |-> IF isLast THEN "ok" ELSE "err", p |-> n]
             ELSE IF isLast /\ ~follow THEN [st |-> "ok", p |-> n]
             ELSE IF hops = 0 THEN [st |-> "err", p |-> n]
             ELSE Walk(f, <<>>, f[n].to \o Tail(rest), follow, hops - 1)

lstatSync(f, path) == Walk(f, <<>>, path, FALSE, MaxHops)
statSync(f, path) == Walk(f, <<>>, path, TRUE, MaxHops)

existsSync(f, path) == statSync(f, path).st = "ok"

\* fs.mkdirSync(path, { recursive: true })
RECURSIVE MkdirFrom(_, _, _)
MkdirFrom(f, path, k) ==
    IF k > Len(path) THEN [ok |-> TRUE, fs |-> f]
    ELSE LET pre == SubSeq(path, 1, k)
             l == lstatSync(f, pre)
             s == statSync(f, pre)
         IN  IF s.st = "ok"
             THEN IF f[s.p].kind = "dir" THEN MkdirFrom(f, path, k + 1)
                  ELSE [ok |-> FALSE, fs |-> f]
             ELSE IF l.st = "noent"
             THEN MkdirFrom(l.p :> DirNode @@ f, path, k + 1)
             ELSE [ok |-> FALSE, fs |-> f]

mkdirSync(f, path) == MkdirFrom(f, path, 1)

Without(f, gone) == [p \in DOMAIN f \ gone |-> f[p]]

\* fs.unlinkSync(path) on an entry lstat found at p
unlinkSync(f, p) == Without(f, {p})

\* fs.rmSync(path, { recursive: true, force: true }) on a directory at p
rmSync(f, p) == Without(f, {q \in DOMAIN f : IsPrefix(p, q)})

\* fs.symlinkSync(src, path)
symlinkSync(f, src, path) ==
    LET l == lstatSync(f, path)
    IN  IF l.st = "noent" THEN [ok |-> TRUE, fs |-> l.p :> LinkNode(src) @@ f]
        ELSE [ok |-> FALSE, fs |-> f]

----------------------------------------------------------------------------
(* install.mjs *)

\* removeExisting with unlinkSync for every kind of entry: on a directory
\* it throws, and the catch block leaves the directory in place
removeExisting_UnlinkOnly(f, target) ==
    LET l == lstatSync(f, target)
    IN  IF l.st # "ok" THEN f
        ELSE IF f[l.p].kind = "dir" THEN f
        ELSE unlinkSync(f, l.p)

removeExisting(f, target) ==
    LET l == lstatSync(f, target)
    IN  IF l.st # "ok" THEN f
        ELSE IF f[l.p].kind = "dir" THEN rmSync(f, l.p)
        ELSE unlinkSync(f, l.p)

\* what lstat reports at path: "absent", "file", "dir" or "link"
KindAt(f, path) ==
    LET l == lstatSync(f, path) IN IF l.st = "ok" THEN f[l.p].kind ELSE "absent"

\* what stat reports at path, following symbolic links: "absent" (also for
\* a dangling link), "file" or "dir"
StatKindAt(f, path) ==
    LET t == statSync(f, path) IN IF t.st = "ok" THEN f[t.p].kind ELSE "absent"

\* A failing filesystem call: kind is "none", "remove" (unlinkSync or
\* rmSync throws, rmSync after it has removed the entries in gone) or
\* "symlink" (symlinkSync throws)
NoFault == [kind |-> "none", gone |-> {}]

\* what a recursive removal of the directory at p can have removed when it
\* throws: entries below p, none of them without all that lies below it
PartialRemovals(f, p) ==
    IF f[p].kind # "dir" THEN {{}}
    ELSE {g \in SUBSET {q \in DOMAIN f : IsStrictPrefix(p, q)} :
             \A q \in g : \A r \in DOMAIN f : IsPrefix(q, r) => r \in g}

\* the calls that can fail while target is linked in the filesystem f
Faults(f, target) ==
    LET m == mkdirSync(f, dirname(target))
        l == lstatSync(m.fs, target)
    IN  IF ~m.ok THEN {NoFault}
        ELSE {NoFault, [kind |-> "symlink", gone |-> {}]}
             \cup (IF l.st = "ok"
                   THEN {[kind |-> "remove", gone |-> g] :
                            g \in PartialRemovals(m.fs, l.p)}
                   ELSE {})

\* removeExisting when unlinkSync or rmSync throws: the catch block takes
\* the exception for a missing target and returns
removeExistingThrows(f, target, gone) ==
    LET l == lstatSync(f, target)
    IN  IF l.st # "ok" THEN f ELSE Without(f, gone)

\* mkdirSync(dirname(target)); removeExisting(target); symlinkSync(src, target)
\* res tells how the sequence ended: "linked", or the call whose exception
\* ended the run; threw is the first call that threw
LinkApply(f, src, target, flt) ==
    LET m == mkdirSync(f, dirname(target))
        r == IF flt.kind = "remove"
             THEN removeExistingThrows(m.fs, target, flt.gone)
             ELSE removeExisting(m.fs, target)
        l == IF flt.kind = "symlink" THEN [ok |-> FALSE, fs |-> r]
             ELSE symlinkSync(r, src, target)
    IN  IF ~m.ok
        THEN [res |-> "mkdir", fs |-> m.fs, was |-> "none", threw |-> "mkdir"]
        ELSE [res |-> IF l.ok THEN "linked" ELSE "symlink", fs |-> l.fs,
              was |-> KindAt(m.fs, target),
              threw |-> IF flt.kind = "remove" THEN "remove"
                        ELSE IF l.ok THEN "none" ELSE "symlink"]

\* readFileSync(CONFIG_FILE).split("\n")
RECURSIVE split(_, _)
split(s, sep) ==
    IF \A k \in 1..Len(s) : s[k] # sep THEN <<s>>
    ELSE LET k == CHOOSE j \in 1..Len(s) :
                      s[j] = sep /\ \A m \in 1..(j - 1) : s[m] # sep
         IN  <<SubSeq(s, 1, k - 1)>> \o split(SubSeq(s, k + 1, Len(s)), sep)

\* the characters String.prototype.trim removes
WhiteSpace == {SPACE, "\t", "\r", NL}

RECURSIVE trimStart(_)
trimStart(s) ==
    IF s # <<>> /\ Head(s) \in WhiteSpace THEN trimStart(Tail(s)) ELSE s

RECURSIVE trimEnd(_)
trimEnd(s) ==
    IF s # <<>> /\ s[Len(s)] \in WhiteSpace
    THEN trimEnd(SubSeq(s, 1, Len(s) - 1)) ELSE s

trim(s) == trimEnd(trimStart(s))

\* the parse without the trim
ParseConfig_NoTrim(text) ==
    SelectSeq(split(text, NL),
              LAMBDA line : line # <<>> /\ ~startsWith(line, <<HASH>>))

\* .split("\n").map(line => line.trim())
\*  .filter(line => line && !line.startsWith("#"))
ParseConfig(text) ==
    LET lines == split(text, NL)
        trimmed == [k \in 1..Len(lines) |-> trim(lines[k])]
    IN  SelectSeq(trimmed, LAMBDA line : line # <<>> /\ ~startsWith(line, <<HASH>>))

\* reading the config without asking whether it exists
ReadDirPaths_NoGuard(c) ==
    IF c.exists THEN [ok |-> TRUE, paths |-> ParseConfig(c.text)]
    ELSE [ok |-> FALSE, paths |-> <<>>]

\* const dirPaths = existsSync(CONFIG_FILE) ? readFileSync(...)... : []
\* (readFileSync throws when the file does not exist)
ReadDirPaths(c) ==
    IF c.exists THEN [ok |-> TRUE, paths |-> ParseConfig(c.text)]
    ELSE [ok |-> TRUE, paths |-> <<>>]

\* the skip test on the entry itself instead of what lies below it
SkipFile_Exact(relPath, dps) == \E k \in 1..Len(dps) : relPath = dps[k]

\* the skip test without the separator
SkipFile_NoSlash(relPath, dps) ==
    \E k \in 1..Len(dps) : startsWith(relPath, dps[k])

\* dirPaths.some(dirPath => relPath.startsWith(dirPath + "/"))
SkipFile(relPath, dps) ==
    \E k \in 1..Len(dps) : startsWith(relPath, dps[k] \o <<SLASH>>)

\* the names of the model, in ascending order
NameOrder == <<"a", "b", "c", "f", "g", "k", "m", "x", "z">>

Reverse(s) == [k \in 1..Len(s) |-> s[Len(s) + 1 - k]]

\* readdirSync(dir, { withFileTypes: true }): the names in dir, listed in
\* ascending or descending order
readdirSync(f, dir, r) ==
    LET d == statSync(f, dir).p
    IN  SelectSeq(IF r THEN Reverse(NameOrder) ELSE NameOrder,
                  LAMBDA n : Append(d, n) \in DOMAIN f)

RECURSIVE getAllFiles(_, _, _)
RECURSIVE flatMapEntries(_, _, _, _)

\* the listing without the descent into directories
flatMapEntries_Shallow(f, dir, r, names) ==
    SelectSeq([k \in 1..Len(names) |-> Append(dir, names[k])],
              LAMBDA p : f[lstatSync(f, p).p].kind # "dir")

flatMapEntries(f, dir, r, names) ==
    IF names = <<>> THEN <<>>
    ELSE LET fullPath == Append(dir, Head(names))
         IN  (IF f[lstatSync(f, fullPath).p].kind = "dir"
              THEN getAllFiles(f, fullPath, r)
              ELSE <<fullPath>>)
             \o flatMapEntries(f, dir, r, Tail(names))

getAllFiles(f, dir, r) == flatMapEntries(f, dir, r, readdirSync(f, dir, r))

----------------------------------------------------------------------------
(* The run *)

NoStep ==
    [step |-> "none", src |-> <<>>, target |-> <<>>, res |-> "none",
     was |-> "none", threw |-> "none"]

Step(step, src, target, r) ==
    [step |-> step, src |-> src, target |-> target, res |-> r.res,
     was |-> r.was, threw |-> r.threw]

Skipped(f) == [res |-> "skip", fs |-> f, was |-> "none", threw |-> "none"]

Failed(res) == res \in {"mkdir", "lstat", "symlink", "error"}

\* the test of the source for a directory that is not a symbolic link
DirWanted_RealDir(f, src) == KindAt(f, src) = "dir"

\* if (!existsSync(src)) continue, in the directory-link loop
DirWanted(f, src) == existsSync(f, src)

\* the extra-link loop without the test of the source
ExtraWanted_Always(f, absSrc) == TRUE

\* if (!existsSync(absSrc)) continue, in the extra-link loop
ExtraWanted(f, absSrc) == existsSync(f, absSrc)

\* one iteration of the directory-link loop
DirIter(f, dirPath, flt) ==
    LET src == join(HOME_DIR, dirPath)
        target == join(HOME, dirPath)
    IN  IF DirWanted(f, src) THEN LinkApply(f, src, target, flt) ELSE Skipped(f)

\* one iteration of the file-link loop
FileIter(f, file, dps, flt) ==
    LET relPath == PathString(relative(HOME_DIR, file))
        target == join(HOME, relPath)
    IN  IF SkipFile(relPath, dps) THEN Skipped(f)
        ELSE LinkApply(f, file, target, flt)

\* the extra-link loop leaving alone a destination where something exists
ExtraIter_KeepExisting(f, k, flt) ==
    LET absSrc == HOME_DIR \o EXTRA_SYMLINKS[k].src
        absTarget == HOME \o EXTRA_SYMLINKS[k].target
    IN  IF ExtraWanted(f, absSrc) /\ KindAt(f, absTarget) = "absent"
        THEN LinkApply(f, absSrc, absTarget, flt)
        ELSE Skipped(f)

\* one iteration of the extra-link loop
ExtraIter(f, k, flt) ==
    LET absSrc == HOME_DIR \o EXTRA_SYMLINKS[k].src
        absTarget == HOME \o EXTRA_SYMLINKS[k].target
    IN  IF ExtraWanted(f, absSrc) THEN LinkApply(f, absSrc, absTarget, flt)
        ELSE Skipped(f)

\* the faults the environment can inject into the iteration that links target
FaultChoices(target) == IF fault = "armed" THEN Faults(fs, target) ELSE {NoFault}

\* the fault state after an iteration with result r under the fault flt
FaultAfter(r, flt) ==
    IF r.res = "skip" \/ flt.kind = "none" THEN fault ELSE "hit"

\* the log after an iteration with result r
LogAfter(r, src, target) ==
    IF r.res = "linked" THEN Append(log, [src |-> src, target |-> target])
    ELSE log

ReadConfig ==
    /\ pc = "config"
    /\ LET r == ReadDirPaths(conf)
       IN  /\ dirPaths' = r.paths
           /\ pc' = IF ~r.ok THEN "failed"
                    ELSE IF r.paths = <<>> THEN "enum" ELSE "dirs"
           /\ last' = IF r.ok THEN last
                      ELSE [NoStep EXCEPT !.step = "config", !.res = "error"]
    /\ di' = 1
    /\ UNCHANGED <<fs, fs0, conf, rev, run, files, fi, ei, made, applied, prev,
                   fault, log>>
    /\ UNCHANGED pure

DirLink ==
    /\ pc = "dirs"
    /\ \E flt \in FaultChoices(join(HOME, dirPaths[di])) :
       LET dirPath == dirPaths[di]
           r == DirIter(fs, dirPath, flt)
       IN  /\ fs' = r.fs
           /\ fault' = FaultAfter(r, flt)
           /\ log' = LogAfter(r, join(HOME_DIR, dirPath), join(HOME, dirPath))
           /\ last' = Step("dir", join(HOME_DIR, dirPath), join(HOME, dirPath), r)
           /\ made' = IF r.res = "linked" THEN made \cup {join(HOME, dirPath)}
                      ELSE made
           /\ applied' = IF r.res = "linked" THEN applied \cup {dirPath}
                         ELSE applied
           /\ pc' = IF Failed(r.res) THEN "failed"
                    ELSE IF di = Len(dirPaths) THEN "enum" ELSE "dirs"
    /\ di' = di + 1
    /\ UNCHANGED <<fs0, conf, rev, run, dirPaths, files, fi, ei, prev>>
    /\ UNCHANGED pure

\* for (const file of getAllFiles(HOME_DIR)): the array is built once
Enumerate ==
    /\ pc = "enum"
    /\ IF existsSync(fs, HOME_DIR)
       THEN /\ files' = getAllFiles(fs, HOME_DIR, rev)
            /\ pc' = IF files' = <<>> THEN "extra" ELSE "files"
            /\ last' = last
       ELSE /\ files' = <<>>
            /\ pc' = "failed"
            /\ last' = [NoStep EXCEPT !.step = "enum", !.res = "error"]
    /\ fi' = 1
    /\ ei' = 1
    /\ UNCHANGED <<fs, fs0, conf, rev, run, dirPaths, di, made, applied, prev,
                   fault, log>>
    /\ UNCHANGED pure

\* the file-link loop starting over on a fresh enumeration after each file
FileLink_StartOver ==
    /\ pc = "files"
    /\ \E flt \in FaultChoices(HOME \o relative(HOME_DIR, files[fi])) :
       LET file == files[fi]
           target == HOME \o relative(HOME_DIR, file)
           r == FileIter(fs, file, dirPaths, flt)
       IN  /\ fs' = r.fs
           /\ fault' = FaultAfter(r, flt)
           /\ log' = LogAfter(r, file, target)
           /\ last' = Step("file", file, target, r)
           /\ made' = IF r.res = "linked" THEN made \cup {target} ELSE made
           /\ pc' = IF Failed(r.res) THEN "failed" ELSE "files"
           /\ files' = getAllFiles(r.fs, HOME_DIR, rev)
    /\ fi' = 1
    /\ UNCHANGED <<fs0, conf, rev, run, dirPaths, di, ei, applied, prev>>
    /\ UNCHANGED pure

FileLink ==
    /\ pc = "files"
    /\ \E flt \in FaultChoices(HOME \o relative(HOME_DIR, files[fi])) :
       LET file == files[fi]
           target == HOME \o relative(HOME_DIR, file)
           r == FileIter(fs, file, dirPaths, flt)
       IN  /\ fs' = r.fs
           /\ fault' = FaultAfter(r, flt)
           /\ log' = LogAfter(r, file, target)
           /\ last' = Step("file", file, target, r)
           /\ made' = IF r.res = "linked" THEN made \cup {target} ELSE made
           /\ pc' = IF Failed(r.res) THEN "failed"
                    ELSE IF fi = Len(files) THEN "extra" ELSE "files"
    /\ fi' = fi + 1
    /\ UNCHANGED <<fs0, conf, rev, run, dirPaths, di, files, ei, applied, prev>>
    /\ UNCHANGED pure

\* the last iteration is followed by console.log("Done!")
ExtraLink ==
    /\ pc = "extra"
    /\ \E flt \in FaultChoices(HOME \o EXTRA_SYMLINKS[ei].target) :
       LET absSrc == HOME_DIR \o EXTRA_SYMLINKS[ei].src
           absTarget == HOME \o EXTRA_SYMLINKS[ei].target
           r == ExtraIter(fs, ei, flt)
       IN  /\ fs' = r.fs
           /\ fault' = FaultAfter(r, flt)
           /\ log' = LogAfter(r, absSrc, absTarget)
           /\ last' = Step("extra", absSrc, absTarget, r)
           /\ made' = IF r.res = "linked" THEN made \cup {absTarget} ELSE made
           /\ pc' = IF Failed(r.res) THEN "failed"
                    ELSE IF ei = Len(EXTRA_SYMLINKS) THEN "done" ELSE "extra"
    /\ ei' = ei + 1
    /\ UNCHANGED <<fs0, conf, rev, run, dirPaths, di, files, fi, applied, prev>>
    /\ UNCHANGED pure

\* the installer is started again on the filesystem the last run left
Rerun ==
    /\ pc \in {"done", "failed"}
    /\ run < MaxRuns
    /\ prev' = [pc |-> pc, fs |-> fs, fault |-> fault]
    /\ fault' = "off"
    /\ log' = <<>>
    /\ run' = run + 1
    /\ pc' = "config"
    /\ dirPaths' = <<>>
    /\ di' = 1
    /\ files' = <<>>
    /\ fi' = 1
    /\ ei' = 1
    /\ last' = NoStep
    /\ made' = {}
    /\ applied' = {}
    /\ UNCHANGED <<fs, fs0, conf, rev>>
    /\ UNCHANGED pure

\* The same run as a function of the filesystem, dirPaths and listing order

RECURSIVE RunExtras(_, _)
RunExtras(f, k) ==
    IF k > Len(EXTRA_SYMLINKS) THEN [pc |-> "done", fs |-> f]
    ELSE LET r == ExtraIter(f, k, NoFault)
         IN  IF Failed(r.res) THEN [pc |-> "failed", fs |-> r.fs]
             ELSE RunExtras(r.fs, k + 1)

RECURSIVE RunFiles(_, _, _, _)
RunFiles(f, fls, dps, k) ==
    IF k > Len(fls) THEN RunExtras(f, 1)
    ELSE LET r == FileIter(f, fls[k], dps, NoFault)
         IN  IF Failed(r.res) THEN [pc |-> "failed", fs |-> r.fs]
             ELSE RunFiles(r.fs, fls, dps, k + 1)

RECURSIVE RunDirs(_, _, _, _)
RunDirs(f, dps, r, k) ==
    IF k > Len(dps)
    THEN IF existsSync(f, HOME_DIR)
         THEN RunFiles(f, getAllFiles(f, HOME_DIR, r), dps, 1)
         ELSE [pc |-> "failed", fs |-> f]
    ELSE LET d == DirIter(f, dps[k], NoFault)
         IN  IF Failed(d.res) THEN [pc |-> "failed", fs |-> d.fs]
             ELSE RunDirs(d.fs, dps, r, k + 1)

RunInstall(f, dps, r) == RunDirs(f, dps, r, 1)

----------------------------------------------------------------------------
(* Initial states *)

\* the filesystem holding the entries E (pairs <<path, node>>) and the
\* directories above them
Tree(E) ==
    LET paths == {e[1] : e \in E}
        all == UNION {{SubSeq(q, 1, k) : k \in 0..Len(q)} : q \in paths}
    IN  [p \in all |-> IF \E e \in E : e[1] = p
                       THEN (CHOOSE e \in E : e[1] = p)[2] ELSE DirNode]

\* regular files of the source tree, relative to HOME_DIR
SrcTrees ==
    { {},
      {<<"f">>},
      {<<"a", "f">>},
      {<<"f">>, <<"a", "b", "f">>},
      {<<"a", "f">>, <<"a", "b", "f">>},
      {<<"c", "m">>},
      {<<"c", "m">>, <<"c", "k", "f">>},
      {<<"c", "m">>, <<"x", "g">>},
      {<<"a", "b", "f">>, <<"c", "m">>, <<"c", "k", "f">>} }

\* entries of symlink-dirs.conf
ConfEntries == {<<"a">>, <<"a", "b">>, <<"c">>, <<"x">>}

ConfLists ==
    {<<>>} \cup {<<d>> : d \in ConfEntries}
           \cup {de \in ConfEntries \X ConfEntries : de[1] # de[2]}

RECURSIVE ConfText(_)
ConfText(ds) ==
    IF ds = <<>> THEN <<>>
    ELSE <<SPACE>> \o PathString(Head(ds)) \o <<NL>> \o ConfText(Tail(ds))

Confs ==
    {[exists |-> FALSE, text |-> <<>>]}
    \cup {[exists |-> TRUE, text |-> <<HASH, NL, NL>> \o ConfText(ds)] :
             ds \in ConfLists}

\* a directory and a file outside the source tree and the home directory
Outside == {<<<<"o">>, DirNode>>, <<<<"o", "f">>, FileNode>>}

\* where the home directory holds an entry before the first run
DestSlots ==
    {<<"h", "f">>, <<"h", "a">>, <<"h", "a", "b">>, <<"h", "x">>,
     <<"h", "x", "g">>}

\* what a symbolic link of the home directory points at before the first run
LinkTargets == {<<"o", "f">>, <<"o">>, <<"o", "n">>, <<"s", "a">>}

DestInits ==
    {{}} \cup {{<<p, FileNode>>} : p \in DestSlots}
         \cup {{<<Append(p, "z"), FileNode>>} : p \in DestSlots}
         \cup {{<<p, LinkNode(t)>>} : p \in DestSlots, t \in LinkTargets}

\* the filesystem before the first run: the regular files src and the
\* symbolic links lnk of the source tree, the entries dest of the home
\* directory
World(src, lnk, dest) ==
    Tree({<<HOME_DIR, DirNode>>, <<HOME, DirNode>>} \cup Outside
         \cup {<<HOME_DIR \o p, FileNode>> : p \in src}
         \cup {<<HOME_DIR \o l[1], LinkNode(l[2])>> : l \in lnk} \cup dest)

MainScenes ==
    {[fs |-> World(src, {}, dest), conf |-> c] :
        src \in SrcTrees, dest \in DestInits, c \in Confs}

\* symbolic links of the source tree: dangling, to a directory outside, to a
\* file outside, to the source tree itself
SrcLinks ==
    { {},
      {<<<<"b">>, <<"o", "n">>>>},
      {<<<<"b">>, <<"o">>>>},
      {<<<<"b">>, <<"o", "f">>>>},
      {<<<<"b">>, <<"s">>>>} }

\* source trees with a symbolic link b, and configs that name b and the
\* regular file f
LinkScenes ==
    {[fs |-> World(src, lnk, dest),
      conf |-> [exists |-> TRUE, text |-> ConfText(ds)]] :
        src \in {{}, {<<"f">>}, {<<"a", "f">>}},
        lnk \in SrcLinks,
        dest \in {{}, {<<<<"h", "b">>, FileNode>>},
                  {<<<<"h", "b", "z">>, FileNode>>},
                  {<<<<"h", "b">>, LinkNode(<<"o">>)>>},
                  {<<<<"h", "f">>, FileNode>>}},
        ds \in {<<>>, <<<<"b">>>>, <<<<"f">>>>, <<<<"b">>, <<"f">>>>,
                <<<<"f">>, <<"b">>>>}}

Scenes == MainScenes \cup LinkScenes

\* the scenes in which filesystem calls of the first run can fail
FaultScenes ==
    {[fs |-> World(src, {}, dest),
      conf |-> [exists |-> TRUE, text |-> ConfText(ds)]] :
        src \in {{<<"f">>}, {<<"a", "f">>, <<"a", "b", "f">>},
                 {<<"c", "m">>, <<"x", "g">>}},
        dest \in DestInits,
        ds \in {<<>>, <<<<"a">>>>, <<<<"a", "b">>, <<"a">>>>,
                <<<<"a">>, <<"a", "b">>>>, <<<<"x">>>>}}

\* the state in which the first run starts
Start(scenes, flt) ==
    /\ \E sc \in scenes : fs = sc.fs /\ conf = sc.conf
    /\ fs0 = fs
    /\ rev \in BOOLEAN
    /\ pc = "config"
    /\ run = 1
    /\ dirPaths = <<>>
    /\ di = 1
    /\ files = <<>>
    /\ fi = 1
    /\ ei = 1
    /\ last = NoStep
    /\ made = {}
    /\ applied = {}
    /\ prev = [pc |-> "none", fs |-> fs, fault |-> "off"]
    /\ fault = flt
    /\ log = <<>>
    /\ arg = <<>>
    /\ ret = [done |-> FALSE, val |-> <<>>]

Init == Start(Scenes, "off")

InitFaulty == Start(FaultScenes, "armed")

Next == ReadConfig \/ DirLink \/ Enumerate \/ FileLink \/ ExtraLink \/ Rerun

Spec == Init /\ [][Next]_vars

\* runs in which a filesystem call of the first run can fail
SpecFaulty == InitFaulty /\ [][Next]_vars

----------------------------------------------------------------------------
(* install.ts: the same pass without removeExisting and without extra links *)

\* fs.rmSync(path, { recursive: true, force: true }) on whatever is at path
rmSyncForce(f, path) ==
    LET l == lstatSync(f, path)
    IN  IF l.st # "ok" THEN f
        ELSE IF f[l.p].kind = "dir" THEN rmSync(f, l.p)
        ELSE unlinkSync(f, l.p)

\* mkdirSync(dirname(target));
\* if (existsSync(target) || lstatSync(target).isSymbolicLink()) rmSync(target);
\* symlinkSync(src, target)
\* lstatSync is reached when existsSync is false, and throws when there is
\* nothing at target
TsDirApply(f, src, target) ==
    LET m == mkdirSync(f, dirname(target))
        l == symlinkSync(rmSyncForce(m.fs, target), src, target)
    IN  IF ~m.ok
        THEN [res |-> "mkdir", fs |-> m.fs, was |-> "none", threw |-> "mkdir"]
        ELSE IF ~existsSync(m.fs, target) /\ lstatSync(m.fs, target).st # "ok"
        THEN [res |-> "lstat", fs |-> m.fs, was |-> "absent", threw |-> "lstat"]
        ELSE [res |-> IF l.ok THEN "linked" ELSE "symlink", fs |-> l.fs,
              was |-> KindAt(m.fs, target),
              threw |-> IF l.ok THEN "none" ELSE "symlink"]

\* try { if (lstatSync(target).isSymbolicLink() || existsSync(target))
\*         unlinkSync(target) } catch { }
\* unlinkSync throws on a directory; the catch block takes every exception
TsUnlinkExisting(f, target) ==
    LET l == lstatSync(f, target)
    IN  IF l.st # "ok" THEN f
        ELSE IF f[l.p].kind = "dir" THEN f
        ELSE unlinkSync(f, l.p)

\* mkdirSync(dirname(target)); the removal; symlinkSync(file, target)
TsFileApply(f, file, target) ==
    LET m == mkdirSync(f, dirname(target))
        l == symlinkSync(TsUnlinkExisting(m.fs, target), file, target)
    IN  IF ~m.ok
        THEN [res |-> "mkdir", fs |-> m.fs, was |-> "none", threw |-> "mkdir"]
        ELSE [res |-> IF l.ok THEN "linked" ELSE "symlink", fs |-> l.fs,
              was |-> KindAt(m.fs, target),
              threw |-> IF l.ok THEN "none"
                        ELSE IF KindAt(m.fs, target) = "dir" THEN "unlink"
                        ELSE "symlink"]

\* one iteration of the directory-link loop of install.ts
TsDirIter(f, dirPath) ==
    LET src == join(HOME_DIR, dirPath)
        target == join(HOME, dirPath)
    IN  IF existsSync(f, src) THEN TsDirApply(f, src, target) ELSE Skipped(f)

\* one iteration of the file-link loop of install.ts
TsFileIter(f, file, dps) ==
    LET relPath == PathString(relative(HOME_DIR, file))
        target == join(HOME, relPath)
    IN  IF SkipFile(relPath, dps) THEN Skipped(f)
        ELSE TsFileApply(f, file, target)

TsDirLink ==
    /\ pc = "dirs"
    /\ LET dirPath == dirPaths[di]
           src == join(HOME_DIR, dirPath)
           target == join(HOME, dirPath)
           r == TsDirIter(fs, dirPath)
       IN  /\ fs' = r.fs
           /\ log' = LogAfter(r, src, target)
           /\ last' = Step("dir", src, target, r)
           /\ made' = IF r.res = "linked" THEN made \cup {target} ELSE made
           /\ applied' = IF r.res = "linked" THEN applied \cup {dirPath}
                         ELSE applied
           /\ pc' = IF Failed(r.res) THEN "failed"
                    ELSE IF di = Len(dirPaths) THEN "enum" ELSE "dirs"
    /\ di' = di + 1
    /\ UNCHANGED <<fs0, conf, rev, run, dirPaths, files, fi, ei, prev, fault>>
    /\ UNCHANGED pure

\* for (const file of getAllFiles(HOME_DIR)); with no file to link the run
\* goes straight to console.log("Done!")
TsEnumerate ==
    /\ pc = "enum"
    /\ IF existsSync(fs, HOME_DIR)
       THEN /\ files' = getAllFiles(fs, HOME_DIR, rev)
            /\ pc' = IF files' = <<>> THEN "done" ELSE "files"
            /\ last' = last
       ELSE /\ files' = <<>>
            /\ pc' = "failed"
            /\ last' = [NoStep EXCEPT !.step = "enum", !.res = "error"]
    /\ fi' = 1
    /\ UNCHANGED <<fs, fs0, conf, rev, run, dirPaths, di, ei, made, applied, prev,
                   fault, log>>
    /\ UNCHANGED pure

\* the last iteration is followed by console.log("Done!")
TsFileLink ==
    /\ pc = "files"
    /\ LET file == files[fi]
           target == HOME \o relative(HOME_DIR, file)
           r == TsFileIter(fs, file, dirPaths)
       IN  /\ fs' = r.fs
           /\ log' = LogAfter(r, file, target)
           /\ last' = Step("file", file, target, r)
           /\ made' = IF r.res = "linked" THEN made \cup {target} ELSE made
           /\ pc' = IF Failed(r.res) THEN "failed"
                    ELSE IF fi = Len(files) THEN "done" ELSE "files"
    /\ fi' = fi + 1
    /\ UNCHANGED <<fs0, conf, rev, run, dirPaths, di, files, ei, applied, prev,
                   fault>>
    /\ UNCHANGED pure

NextTs == ReadConfig \/ TsDirLink \/ TsEnumerate \/ TsFileLink

SpecTs == Init /\ [][NextTs]_vars

----------------------------------------------------------------------------
(* install.sh, the shell installer that reads symlink-dirs.conf.  The       *)
(* script has no "set -e": after a command that fails the next one runs.    *)

DOT == "."

\* while IFS= read -r line: the lines that end in a newline, as they are
RECURSIVE ShReadLines(_)
ShReadLines(text) ==
    IF \A k \in 1..Len(text) : text[k] # NL THEN <<>>
    ELSE LET k == CHOOSE j \in 1..Len(text) :
                      text[j] = NL /\ \A m \in 1..(j - 1) : text[m] # NL
         IN  <<SubSeq(text, 1, k - 1)>> \o ShReadLines(SubSeq(text, k + 1, Len(text)))

\* [[ "$line" =~ ^#.*$ || -z "$line" ]] && continue
ShConfigLines(c) ==
    IF c.exists
    THEN SelectSeq(ShReadLines(c.text),
                   LAMBDA line : line # <<>> /\ line[1] # HASH)
    ELSE <<>>

\* the regular expression d, followed by "/", matches at the start of p;
\* of the characters of the model only "." is special, and stands for any
\* one character
ShPatternMatches(d, p) ==
    /\ Len(p) > Len(d)
    /\ \A i \in 1..Len(d) : d[i] = DOT \/ d[i] = p[i]
    /\ p[Len(d) + 1] = SLASH

\* [ -n "$dir_patterns" ] && echo "$rel_path" | grep -qE "^($dir_patterns)/"
ShSkip(rel_path, dir_patterns) ==
    \E d \in dir_patterns : ShPatternMatches(d, rel_path)

\* rm -rf "$dir_target" and rm "$target": whatever lstat finds at the path
ShRm(f, path) ==
    LET l == lstatSync(f, path)
    IN  IF l.st # "ok" THEN f
        ELSE IF f[l.p].kind = "dir" THEN rmSync(f, l.p)
        ELSE unlinkSync(f, l.p)

\* ln -s src target: when target is a directory, or a symbolic link to
\* one, the link is created inside it under the last name of src
ShLn(f, src, target) ==
    LET t == statSync(f, target)
    IN  IF t.st = "ok" /\ f[t.p].kind = "dir"
        THEN symlinkSync(f, src, Append(t.p, src[Len(src)]))
        ELSE symlinkSync(f, src, target)

\* mkdir -p; the test and the removal; ln -s.  isDirLoop tells which test
\* guards the removal: [ -L ] || [ -d ] or [ -L ] || [ -f ]
ShApply(f, src, target, isDirLoop) ==
    LET m == mkdirSync(f, dirname(target))
        wanted == \/ KindAt(m.fs, target) = "link"
                  \/ StatKindAt(m.fs, target) = (IF isDirLoop THEN "dir" ELSE "file")
        r == IF wanted THEN ShRm(m.fs, target) ELSE m.fs
        l == ShLn(r, src, target)
    IN  [res |-> IF l.ok THEN "linked" ELSE "ln", fs |-> l.fs,
         was |-> KindAt(m.fs, target),
         threw |-> IF ~m.ok THEN "mkdir" ELSE IF l.ok THEN "none" ELSE "ln"]

\* the body of the while loop over the config for one line
ShDirIter(f, line) ==
    LET dir_src == join(HOME_DIR, line)
        dir_target == join(HOME, line)
    IN  IF StatKindAt(f, dir_src) = "dir" THEN ShApply(f, dir_src, dir_target, TRUE)
        ELSE Skipped(f)

\* the body of the loop over the files for one file
ShFileIter(f, file, dir_patterns) ==
    LET rel_path == PathString(relative(HOME_DIR, file))
        target == join(HOME, rel_path)
    IN  IF ShSkip(rel_path, dir_patterns) THEN Skipped(f)
        ELSE ShApply(f, file, target, FALSE)

\* find "$HOME_DIR" -type f
ShFind(f, r) ==
    IF StatKindAt(f, HOME_DIR) # "dir" THEN <<>>
    ELSE SelectSeq(getAllFiles(f, HOME_DIR, r), LAMBDA p : f[p].kind = "file")

ShReadConfig ==
    /\ pc = "config"
    /\ dirPaths' = ShConfigLines(conf)
    /\ pc' = IF dirPaths' = <<>> THEN "enum" ELSE "dirs"
    /\ di' = 1
    /\ UNCHANGED <<fs, fs0, conf, rev, run, files, fi, ei, last, made, applied,
                   prev, fault, log>>
    /\ UNCHANGED pure

\* applied holds dir_patterns: the line is added whether or not ln succeeded
ShDirLink ==
    /\ pc = "dirs"
    /\ LET line == dirPaths[di]
           r == ShDirIter(fs, line)
       IN  /\ fs' = r.fs
           /\ log' = LogAfter(r, join(HOME_DIR, line), join(HOME, line))
           /\ last' = Step("dir", join(HOME_DIR, line), join(HOME, line), r)
           /\ made' = IF r.res = "linked" THEN made \cup {join(HOME, line)}
                      ELSE made
           /\ applied' = IF r.res = "skip" THEN applied ELSE applied \cup {line}
           /\ pc' = IF di = Len(dirPaths) THEN "enum" ELSE "dirs"
    /\ di' = di + 1
    /\ UNCHANGED <<fs0, conf, rev, run, dirPaths, files, fi, ei, prev, fault>>
    /\ UNCHANGED pure

\* find ... | while read -r file; with no file the script goes on to
\* echo "Done!"
ShEnumerate ==
    /\ pc = "enum"
    /\ files' = ShFind(fs, rev)
    /\ pc' = IF files' = <<>> THEN "done" ELSE "files"
    /\ fi' = 1
    /\ UNCHANGED <<fs, fs0, conf, rev, run, dirPaths, di, ei, last, made, applied,
                   prev, fault, log>>
    /\ UNCHANGED pure

\* the last iteration is followed by echo "Done!", the last command of the
\* script, whose status is the exit status
ShFileLink ==
    /\ pc = "files"
    /\ LET file == files[fi]
           target == HOME \o relative(HOME_DIR, file)
           r == ShFileIter(fs, file, applied)
       IN  /\ fs' = r.fs
           /\ log' = LogAfter(r, file, target)
           /\ last' = Step("file", file, target, r)
           /\ made' = IF r.res = "linked" THEN made \cup {target} ELSE made
           /\ pc' = IF fi = Len(files) THEN "done" ELSE "files"
    /\ fi' = fi + 1
    /\ UNCHANGED <<fs0, conf, rev, run, dirPaths, di, files, ei, applied, prev,
                   fault>>
    /\ UNCHANGED pure

\* configs of the shell installer: one entry to a line, nothing around it
RECURSIVE ShConfText(_)
ShConfText(ds) ==
    IF ds = <<>> THEN <<>>
    ELSE PathString(Head(ds)) \o <<NL>> \o ShConfText(Tail(ds))

ShScenes ==
    {[fs |-> World(src, {}, dest),
      conf |-> [exists |-> TRUE, text |-> <<HASH, NL, NL>> \o ShConfText(ds)]] :
        src \in SrcTrees, dest \in DestInits,
        ds \in {<<>>, <<<<"a">>>>, <<<<"x">>>>, <<<<"a", "b">>, <<"a">>>>}}
    \cup {[fs |-> World(src, {}, dest), conf |-> [exists |-> FALSE, text |-> <<>>]] :
             src \in SrcTrees, dest \in DestInits}

InitSh == Start(ShScenes, "off")

NextSh == ShReadConfig \/ ShDirLink \/ ShEnumerate \/ ShFileLink

SpecSh == InitSh /\ [][NextSh]_vars

----------------------------------------------------------------------------
(* Claims about the run of install.mjs *)

Ended == pc \in {"done", "failed"}

\* the names of a config entry or relative path string, split at "/"
Names(str) == SelectSeq(str, LAMBDA c : c # SLASH)

\* the part of a filesystem at and below a directory
Below(f, dir) == [p \in {q \in DOMAIN f : IsPrefix(dir, q)} |-> f[p]]

\* C1: running the installer a second time, with source and config
\* unchanged, raises no error and ends in exactly the filesystem the first
\* run left.  Stated here for the runs that follow a run that itself
\* completed without error.
C1_Idempotent ==
    (run > 1 /\ Ended /\ prev.pc = "done") => (pc = "done" /\ fs = prev.fs)

\* C2: whatever lstat found at a managed destination path (nothing, a
\* regular file, a directory, a symbolic link of any kind), the removal
\* clears the path, so creating the link never fails, and once the path is
\* processed it is a symbolic link to its source with nothing below it.
C2_Replaced ==
    /\ last.res # "symlink"
    /\ last.res = "linked" =>
          LET l == lstatSync(fs, last.target)
          IN  /\ l.st = "ok"
              /\ fs[l.p] = LinkNode(last.src)
              /\ \A q \in DOMAIN fs : ~IsStrictPrefix(l.p, q)

\* a directory with contents was at the destination and has been replaced
C2_Witness ==
    /\ last.res = "linked" /\ last.was = "dir" /\ run = 1
    /\ Append(last.target, "z") \in DOMAIN fs0

\* C3: no run removes, creates or replaces anything in the source tree.
C3_SourceReadOnly == Below(fs, HOME_DIR) = Below(fs0, HOME_DIR)

\* C4: after a successful run, every applied directory-link entry d has
\* destination/d a symbolic link to source/d, and the run created no
\* symbolic link at a path strictly below destination/d.
C4_Exclusive ==
    pc = "done" =>
       \A d \in applied :
          /\ KindAt(fs, join(HOME, d)) = "link"
          /\ fs[lstatSync(fs, join(HOME, d)).p].to = join(HOME_DIR, d)
          /\ \A m \in made : ~IsStrictPrefix(join(HOME, d), m)

\* C5: the file-link loop does nothing (no mkdir, no removal, no symlink)
\* for a file that lies below a directory-link entry of the config.
C5_NoDescent ==
    [][ (/\ pc = "files"
         /\ \E k \in 1..Len(dirPaths) :
               IsStrictPrefix(Names(dirPaths[k]), relative(HOME_DIR, files[fi])))
        => (fs' = fs /\ made' = made /\ last'.res = "skip") ]_vars

\* the file-link loop has passed over a file below an applied entry
C5_Witness ==
    /\ last.step = "file" /\ last.res = "skip"
    /\ \E d \in applied : IsStrictPrefix(join(HOME_DIR, d), last.src)

\* C8: the order of the directory-link entries in the config does not
\* change the outcome of a run: every ordering of the same entries ends in
\* the same filesystem.  Stated here for the orderings under which the run
\* completes without error.
Orderings(s) ==
    {[k \in 1..Len(s) |-> s[q[k]]] :
        q \in {r \in [1..Len(s) -> 1..Len(s)] :
                  \A i, j \in 1..Len(s) : r[i] = r[j] => i = j}}

C8_OrderFree ==
    (run = 1 /\ pc = "done") =>
       \A q \in Orderings(dirPaths) :
          RunInstall(fs0, q, rev).pc = "done" =>
             RunInstall(fs0, q, rev).fs = fs

\* C9: without a config file the installer does not fail on reading it,
\* dirPaths is empty, no directory link is made, no file is passed over,
\* and once the file-link loop is through every file getAllFiles listed has
\* been linked at its mirrored destination path.
C9_NoConfig ==
    ~conf.exists =>
       /\ last.step # "config"
       /\ dirPaths = <<>>
       /\ applied = {}
       /\ last.step # "dir"
       /\ last.step = "file" => last.res # "skip"
       /\ (last.step = "file" /\ last.res = "linked") =>
             fs[lstatSync(fs, last.target).p] = LinkNode(last.src)
       /\ pc \in {"extra", "done"} =>
             \A k \in 1..Len(files) :
                HOME \o relative(HOME_DIR, files[k]) \in made

\* without a config file, a run has linked a file below s/a/b and is done
C9_Witness ==
    /\ ~conf.exists /\ pc = "done"
    /\ <<"h", "a", "b", "f">> \in made

\* C10: the iteration of the extra-link loop for a pair whose source does
\* not exist changes nothing in the filesystem, creates no link, raises no
\* error, and the run goes on to "Done!".
C10_MissingExtra ==
    [][ (/\ pc = "extra"
         /\ KindAt(fs, HOME_DIR \o EXTRA_SYMLINKS[ei].src) = "absent")
        => (/\ fs' = fs
            /\ made' = made
            /\ pc' = IF ei = Len(EXTRA_SYMLINKS) THEN "done" ELSE "extra") ]_vars

\* a run is done whose last extra link had no source while an entry
\* existed at its destination
C10_Witness ==
    /\ pc = "done" /\ last.step = "extra" /\ last.res = "skip"
    /\ KindAt(fs, last.src) = "absent"
    /\ KindAt(fs, dirname(last.target)) # "absent"

\* the destination paths a run manages, each with its source: the
\* directory-link entries, the mirrors of the files the file-link loop does
\* not pass over (but for those at an extra-link target, which belongs to
\* the extra link), the extra-link targets
Managed ==
    {[src |-> join(HOME_DIR, dirPaths[k]), target |-> join(HOME, dirPaths[k])] :
        k \in 1..Len(dirPaths)}
    \cup {[src |-> files[k], target |-> HOME \o relative(HOME_DIR, files[k])] :
             k \in {j \in 1..Len(files) :
                       /\ ~SkipFile(PathString(relative(HOME_DIR, files[j])), dirPaths)
                       /\ \A e \in 1..Len(EXTRA_SYMLINKS) :
                             relative(HOME_DIR, files[j]) # EXTRA_SYMLINKS[e].target}}
    \cup {[src |-> HOME_DIR \o EXTRA_SYMLINKS[k].src,
           target |-> HOME \o EXTRA_SYMLINKS[k].target] :
             k \in 1..Len(EXTRA_SYMLINKS)}

\* lstat finds at path a symbolic link whose text is src
IsLinkTo(f, path, src) ==
    LET l == lstatSync(f, path) IN l.st = "ok" /\ f[l.p] = LinkNode(src)

\* C11: after a successful run every managed destination path is absent,
\* when its source is missing, or else a symbolic link to its source.
C11_Managed ==
    pc = "done" =>
       \A m \in Managed :
          IF KindAt(fs, m.src) = "absent" THEN KindAt(fs, m.target) = "absent"
          ELSE IsLinkTo(fs, m.target, m.src)

\* C12 as stated: the directory-link loop applies an entry exactly when a
\* directory exists at source/d, and passes over every other entry (source
\* absent, a regular file, a dangling symbolic link) changing nothing.
C12_RealDirOnly ==
    [][ pc = "dirs" =>
           LET src == join(HOME_DIR, dirPaths[di])
           IN  /\ last'.res = "skip" <=> StatKindAt(fs, src) # "dir"
               /\ last'.res = "skip" => (fs' = fs /\ made' = made) ]_vars

\* C12, amended: the directory-link loop applies an entry exactly when
\* something exists at source/d once symbolic links are followed (a
\* directory or a regular file), and passes over an entry whose source is
\* absent or a dangling symbolic link, changing nothing.
C12_ExistingOnly ==
    [][ pc = "dirs" =>
           LET src == join(HOME_DIR, dirPaths[di])
           IN  /\ last'.res = "skip" <=> StatKindAt(fs, src) = "absent"
               /\ last'.res = "skip" => (fs' = fs /\ made' = made) ]_vars

\* an entry whose source is a dangling symbolic link has been passed over
\* while an entry existed at its destination
C12_Witness ==
    /\ last.step = "dir" /\ last.res = "skip"
    /\ KindAt(fs, last.src) = "link"
    /\ KindAt(fs, last.target) # "absent"

\* C13: after a successful run, the destination of every extra link whose
\* source exists is a symbolic link to that source, whatever was there
\* before the run, whether or not the source tree holds a file at the
\* mirrored path, whether or not the destination lies below a
\* directory-link entry.
C13_ExtrasLast ==
    pc = "done" =>
       \A k \in 1..Len(EXTRA_SYMLINKS) :
          existsSync(fs, HOME_DIR \o EXTRA_SYMLINKS[k].src) =>
             IsLinkTo(fs, HOME \o EXTRA_SYMLINKS[k].target,
                      HOME_DIR \o EXTRA_SYMLINKS[k].src)

\* a run is done in which .codex was linked as a directory, the source tree
\* held a file at .codex/AGENTS.md, and ~/.codex/AGENTS.md is the extra link
C13_Witness ==
    /\ pc = "done" /\ run = 1
    /\ <<"x">> \in applied
    /\ <<"s", "x", "g">> \in DOMAIN fs0
    /\ IsLinkTo(fs, <<"h", "x", "g">>, <<"s", "c", "m">>)

\* C14: when a removal or a symlink creation throws, the run makes no
\* filesystem call after it: the call that threw is the one whose exception
\* ends the run, and the run does not reach "Done!".
C14_FailFast ==
    last.threw # "none" => (pc = "failed" /\ last.res = last.threw)

\* C15: when a run aborts, every destination path it has linked before,
\* other than the path it was processing, is still a symbolic link to its
\* source (for a path linked more than once, the source of the last time).
C15_NoRollback ==
    pc = "failed" =>
       \A i \in 1..Len(log) :
          (/\ log[i].target # last.target
           /\ \A j \in (i + 1)..Len(log) : log[j].target # log[i].target)
             => IsLinkTo(fs, log[i].target, log[i].src)

\* C16: the run that follows a run aborted by a failing filesystem call,
\* itself without faults, completes and leaves the home directory as a
\* single run without faults from the first filesystem leaves it.  Stated
\* here for the cases in which that single run completes.
C16_Recovery ==
    (Ended /\ prev.fault = "hit" /\ RunInstall(fs0, dirPaths, rev).pc = "done")
       => /\ pc = "done"
          /\ Below(fs, HOME) = Below(RunInstall(fs0, dirPaths, rev).fs, HOME)

\* getAllFiles(HOME_DIR) has just returned: files is its result on fs
JustListed ==
    \/ pc = "files" /\ fi = 1
    \/ pc = "extra" /\ ei = 1 /\ files = <<>>

\* C19 as stated: getAllFiles returns exactly the regular files below its
\* root, each once, and no entry of another kind.
C19_RegularFiles ==
    JustListed =>
       /\ \A i, j \in 1..Len(files) : files[i] = files[j] => i = j
       /\ {files[k] : k \in 1..Len(files)}
             = {p \in DOMAIN fs : IsStrictPrefix(HOME_DIR, p) /\ fs[p].kind = "file"}

\* C19, amended: getAllFiles returns exactly the entries below its root that
\* are not directories (regular files and symbolic links, whatever they
\* point at), each once; it returns no directory and nothing that lies
\* beyond a symbolic link.
C19_NonDirectories ==
    JustListed =>
       /\ \A i, j \in 1..Len(files) : files[i] = files[j] => i = j
       /\ {files[k] : k \in 1..Len(files)}
             = {p \in DOMAIN fs : IsStrictPrefix(HOME_DIR, p) /\ fs[p].kind # "dir"}

\* a source tree with a file in a subdirectory and a symbolic link to a
\* directory that holds a file has been listed
C19_Witness ==
    /\ JustListed
    /\ \E k \in 1..Len(files) : files[k] = <<"s", "a", "f">>
    /\ \E k \in 1..Len(files) :
          /\ fs[files[k]].kind = "link"
          /\ Append(fs[files[k]].to, "f") \in DOMAIN fs

\* what is left of a run: the loops still to come, and the iterations still
\* to come in the loop the run is in
PhasesLeft ==
    CASE pc = "config" -> 4
      [] pc = "dirs" -> 3
      [] pc = "enum" -> 2
      [] pc = "files" -> 1
      [] OTHER -> 0

IterationsLeft ==
    CASE pc = "dirs" -> Len(dirPaths) + 1 - di
      [] pc = "files" -> Len(files) + 1 - fi
      [] pc = "extra" -> Len(EXTRA_SYMLINKS) + 1 - ei
      [] OTHER -> 0

\* C18: every run comes to its end, with "Done!" or with an abort, whatever
\* the directory-link loop has done to the source tree before the
\* enumeration: until then the run is before a loop or has an iteration of
\* its loop to make, and every step leaves fewer loops to come, or as many
\* and fewer iterations of the current loop.
C18_Terminates ==
    /\ [](Ended \/ pc \in {"config", "enum"} \/ IterationsLeft > 0)
    /\ [][ \/ pc' = "config"
           \/ PhasesLeft' < PhasesLeft
           \/ PhasesLeft' = PhasesLeft /\ IterationsLeft' < IterationsLeft ]_vars

\* a run is done whose enumeration listed a symbolic link that the
\* directory-link loop had just created in the source tree, in the place of
\* a directory, pointing at itself
C18_Witness ==
    /\ pc = "done" /\ run = 1
    /\ \E k \in 1..Len(files) :
          /\ files[k] \in DOMAIN fs0 /\ fs0[files[k]].kind = "dir"
          /\ fs[files[k]] = LinkNode(files[k])

\* C28: a step of a run changes nothing but the destination path it is
\* about, the missing directories above that path, which it creates, and
\* what lay below that path when a real directory sat there, which it
\* deletes; every other path of the filesystem is after the step as before.
C28_DestFrame ==
    [][\A q \in DOMAIN fs \cup DOMAIN fs' :
          (q \notin DOMAIN fs \/ q \notin DOMAIN fs' \/ fs'[q] # fs[q])
             => \/ q = last'.target
                \/ IsStrictPrefix(q, last'.target) /\ q \notin DOMAIN fs
                \/ /\ IsStrictPrefix(last'.target, q)
                   /\ q \notin DOMAIN fs'
                   /\ last'.target \in DOMAIN fs /\ fs[last'.target].kind = "dir"]_vars

----------------------------------------------------------------------------
(* Claims about the run of install.ts *)

\* C20: in install.ts, the iteration of the directory-link loop for an entry
\* whose source exists and at whose destination nothing exists removes
\* nothing and creates the symbolic link without an error.
C20_FreshTarget ==
    [][ LET src == join(HOME_DIR, dirPaths[di])
            target == join(HOME, dirPaths[di])
            m == mkdirSync(fs, dirname(target))
        IN  (/\ pc = "dirs"
             /\ existsSync(fs, src)
             /\ m.ok
             /\ KindAt(m.fs, target) = "absent")
            => (/\ last'.res = "linked"
                /\ fs' = symlinkSync(m.fs, src, target).fs) ]_vars

\* C21: in install.ts, once the file-link loop has processed a file at whose
\* destination lstat found a directory, the directory is gone, the
\* destination is a symbolic link to the file, and no error was raised.
C21_DirReplaced ==
    (last.step = "file" /\ last.was = "dir")
       => (/\ last.res = "linked"
           /\ IsLinkTo(fs, last.target, last.src)
           /\ \A q \in DOMAIN fs :
                 ~IsStrictPrefix(lstatSync(fs, last.target).p, q))

----------------------------------------------------------------------------
(* Claims about the run of install.sh *)

\* C22: in the shell installer, after a removal or an "ln -s" that failed
\* the script processes no further path and does not come to "Done!" and
\* the exit status 0 that follows it.
C22_ShFatal ==
    last.threw # "none" => pc = "failed"

----------------------------------------------------------------------------
(* The pure functions of install.mjs on their own: the initial state draws *)
(* the input and one action applies the function                           *)

\* the installer is not running
Idle ==
    /\ fs = <<>> /\ fs0 = <<>> /\ conf = [exists |-> FALSE, text |-> <<>>]
    /\ rev = FALSE /\ pc = "idle" /\ run = 0 /\ dirPaths = <<>> /\ di = 1
    /\ files = <<>> /\ fi = 1 /\ ei = 1 /\ last = NoStep /\ made = {}
    /\ applied = {} /\ prev = [pc |-> "none", fs |-> <<>>, fault |-> "off"]
    /\ fault = "off" /\ log = <<>>

\* strings of length lo..hi over the characters cs
Strings(cs, lo, hi) == UNION {[1..n -> cs] : n \in lo..hi}

\* longest config entry, in characters
MaxEntryLen == 3
\* most names in a relative path
MaxDepth == 2
\* longest config text, in characters
MaxText == 7

\* relative paths as path.relative returns them for a file below HOME_DIR:
\* one or more non-empty names separated by single "/"
RECURSIVE JoinNames(_)
JoinNames(ns) ==
    IF Len(ns) = 1 THEN ns[1] ELSE ns[1] \o <<SLASH>> \o JoinNames(Tail(ns))

\* names of one and two characters
PathNames == {<<"a">>, <<"b">>, <<"a", "a">>, <<"a", "b">>}

RelPaths == {JoinNames(ns) : ns \in Strings(PathNames, 1, MaxDepth)}

\* config entries as ParseConfig yields them
Entries == Strings({"a", "b", SLASH}, 1, MaxEntryLen)

EntryLists ==
    {<<>>} \cup {<<d>> : d \in Entries} \cup {<<d, <<"b">>>> : d \in Entries}
           \cup {<<<<"b">>, d>> : d \in Entries}

ClassifyInit ==
    /\ Idle
    /\ arg \in [relPath : RelPaths, dirPaths : EntryLists]
    /\ ret = [done |-> FALSE, val |-> <<>>]

Classify ==
    /\ ~ret.done
    /\ ret' = [done |-> TRUE, val |-> SkipFile(arg.relPath, arg.dirPaths)]
    /\ UNCHANGED <<inst, arg>>

SpecClassify == ClassifyInit /\ [][Classify]_vars

ParseInit ==
    /\ Idle
    /\ arg \in Strings({"a", HASH, SPACE, NL}, 0, MaxText)
    /\ ret = [done |-> FALSE, val |-> <<>>]

Parse ==
    /\ ~ret.done
    /\ ret' = [done |-> TRUE, val |-> ReadDirPaths([exists |-> TRUE, text |-> arg]).paths]
    /\ UNCHANGED <<inst, arg>>

SpecParse == ParseInit /\ [][Parse]_vars

\* C6: a relative path is skipped exactly when some entry, split into names
\* at "/", is a proper prefix of the path split into names; an entry that
\* is only a prefix of a name (.config against .configX/a) excludes nothing.
C6_Classify ==
    ret.done =>
       (ret.val <=> \E k \in 1..Len(arg.dirPaths) :
                       IsStrictPrefix(split(arg.dirPaths[k], SLASH),
                                      split(arg.relPath, SLASH)))

\* the entry a has been tried against the path ab/a and did not exclude it
C6_Witness ==
    /\ ret.done /\ ~ret.val
    /\ arg.relPath = <<"a", "b", SLASH, "a">>
    /\ arg.dirPaths = <<<<"a">>>>

\* the lines of a text: line i is what lies between newline i - 1 and
\* newline i
NewlinesBefore(text, k) == Cardinality({j \in 1..(k - 1) : text[j] = NL})

LineOf(text, i) ==
    LET at == {k \in 1..Len(text) :
                  text[k] # NL /\ NewlinesBefore(text, k) = i - 1}
    IN  IF at = {} THEN <<>>
        ELSE SubSeq(text, CHOOSE k \in at : \A m \in at : k <= m,
                          CHOOSE k \in at : \A m \in at : k >= m)

\* a line without the whitespace before its first and after its last
\* character that is not whitespace
Trimmed(line) ==
    LET at == {k \in 1..Len(line) : line[k] \notin WhiteSpace}
    IN  IF at = {} THEN <<>>
        ELSE SubSeq(line, CHOOSE k \in at : \A m \in at : k <= m,
                          CHOOSE k \in at : \A m \in at : k >= m)

\* C7: the parsed list is the trimmed lines of the text, in their order,
\* without those that are empty or begin with "#" once trimmed.
C7_Parse ==
    ret.done =>
       LET n == NewlinesBefore(arg, Len(arg) + 1) + 1
           kept == {i \in 1..n : /\ Trimmed(LineOf(arg, i)) # <<>>
                                 /\ Trimmed(LineOf(arg, i))[1] # HASH}
       IN  /\ Len(ret.val) = Cardinality(kept)
           /\ \A i \in kept :
                 ret.val[Cardinality({m \in kept : m <= i})]
                    = Trimmed(LineOf(arg, i))

\* a text with a comment line, a blank line and two entries, one of them
\* indented, has been parsed
C7_Witness ==
    /\ ret.done
    /\ arg = <<"a", NL, HASH, NL, NL, SPACE, "a">>
    /\ ret.val = <<<<"a">>, <<"a">>>>

----------------------------------------------------------------------------
(* The skip test of install.sh on its own *)

\* longest dir_patterns entry, in characters
MaxPatLen == 2
\* longest rel_path, in characters
MaxRelLen == 4

ShPatterns == Strings({"a", "x", DOT}, 1, MaxPatLen)

ShSkipInit ==
    /\ Idle
    /\ arg \in [rel_path : Strings({"a", "x", SLASH}, 1, MaxRelLen),
                 dir_patterns : {{}} \cup {{d, e} : d, e \in ShPatterns}]
    /\ ret = [done |-> FALSE, val |-> <<>>]

ShSkipTest ==
    /\ ~ret.done
    /\ ret' = [done |-> TRUE, val |-> ShSkip(arg.rel_path, arg.dir_patterns)]
    /\ UNCHANGED <<inst, arg>>

SpecShSkip == ShSkipInit /\ [][ShSkipTest]_vars

\* C23: the shell installer skips a file exactly when its path relative to
\* the source begins with one of the dir_patterns entries, taken character
\* for character, followed by "/".
C23_ShLiteral ==
    ret.done =>
       (ret.val <=> \E d \in arg.dir_patterns :
                       startsWith(arg.rel_path, d \o <<SLASH>>))

----------------------------------------------------------------------------
(* The bootstrap scripts (setup.ts and the script with the checklist): what  *)
(* a run does to ~/.secrets and ~/.localenv.  A text is a sequence of words. *)

\* String.prototype.includes
includes(s, t) ==
    \E k \in 0..(Len(s) - Len(t)) : SubSeq(s, k + 1, k + Len(t)) = t

NoFile == [exists |-> FALSE, text |-> <<>>]

\* fs.appendFileSync(file, text): creates the file when it does not exist
appendFileSync(file, text) == [exists |-> TRUE, text |-> file.text \o text]

\* const content = existsSync(file) ? readFileSync(file, "utf-8") : ""
\* if (!content.includes(line)) appendFileSync(file, line + "\n")
appendIfMissing(file, line) ==
    LET content == IF file.exists THEN file.text ELSE <<>>
    IN  IF includes(content, line) THEN file
        ELSE appendFileSync(file, line \o <<NL>>)

\* `export NAME=${value}\n`
ExportLine(name, value) == <<"export", SPACE, name, "=", value, NL>>

\* the sprite post-setup of both scripts on ~/.localenv
PostSetup(env, localenv) ==
    LET l1 == appendFileSync(localenv, ExportLine("SPRITE_NAME", env.SPRITE_NAME))
        l2 == appendIfMissing(l1, <<"export", SPACE, "EDITOR", "=", "nano">>)
        l3 == appendIfMissing(l2, <<"export", SPACE, "VISUAL", "=", "nano">>)
    IN  IF env.REPO_USER # "" /\ env.REPO_NAME # ""
        THEN appendFileSync(l3, ExportLine("SPRITE_REPO_DIR", env.REPO_NAME))
        ELSE l3

\* setup.ts, sprite-specific setup: st is [secrets, localenv]
SetupTs(env, st) ==
    IF env.SPRITE_NAME = "" THEN st
    ELSE [secrets |-> IF env.GITHUB_TOKEN # ""
                      THEN appendFileSync(st.secrets,
                                          ExportLine("GH_TOKEN", env.GITHUB_TOKEN))
                      ELSE st.secrets,
          localenv |-> PostSetup(env, st.localenv)]

\* the script with the checklist: steps.claude, steps.gh, then the sprite
\* post-setup of main
SetupDev(env, st) ==
    LET s1 == IF env.CLAUDE_CODE_OAUTH_TOKEN # ""
              THEN appendFileSync(st.secrets,
                      ExportLine("CLAUDE_CODE_OAUTH_TOKEN", env.CLAUDE_CODE_OAUTH_TOKEN))
              ELSE st.secrets
        s2 == IF env.GITHUB_TOKEN # ""
              THEN appendFileSync(s1, ExportLine("GH_TOKEN", env.GITHUB_TOKEN))
              ELSE s1
    IN  [secrets |-> s2,
         localenv |-> IF env.SPRITE_NAME # "" THEN PostSetup(env, st.localenv)
                      ELSE st.localenv]

RunSetup(script, env, st) ==
    IF script = "setup.ts" THEN SetupTs(env, st) ELSE SetupDev(env, st)

\* number of bootstrap runs in one behaviour
MaxBoots == 2

\* environment variables: "" when not set
Envs ==
    [SPRITE_NAME : {"", "sprite"}, GITHUB_TOKEN : {"", "ghp"},
     REPO_USER : {"", "user"}, REPO_NAME : {"", "repo"},
     CLAUDE_CODE_OAUTH_TOKEN : {"", "oauth"}]

\* ~/.secrets and ~/.localenv before the first run
FilesBefore ==
    [secrets : {NoFile, [exists |-> TRUE, text |-> ExportLine("GH_TOKEN", "old")]},
     localenv : {NoFile,
                 [exists |-> TRUE,
                  text |-> <<"export", SPACE, "EDITOR", "=", "nano", NL>>],
                 [exists |-> TRUE,
                  text |-> ExportLine("SPRITE_NAME", "sprite")]}]

BootInit ==
    /\ Idle
    /\ arg \in [script : {"setup.ts", "dev"}, env : Envs, before : FilesBefore]
    /\ ret = [done |-> FALSE, val |-> [runs |-> 0, files |-> arg.before]]

\* one run of the script
Bootstrap ==
    /\ ret.val.runs < MaxBoots
    /\ ret' = [done |-> TRUE,
               val |-> [runs |-> ret.val.runs + 1,
                        files |-> RunSetup(arg.script, arg.env, ret.val.files)]]
    /\ UNCHANGED <<inst, arg>>

SpecBoot == BootInit /\ [][Bootstrap]_vars

\* C17: with SPRITE_NAME, GITHUB_TOKEN, REPO_USER, REPO_NAME and
\* CLAUDE_CODE_OAUTH_TOKEN set, a second run of the bootstrap leaves
\* ~/.localenv and ~/.secrets as the first run left them.
C17_BootIdempotent ==
    (/\ ret.val.runs > 1
     /\ \A v \in DOMAIN arg.env : arg.env[v] # "")
       => ret.val.files = RunSetup(arg.script, arg.env, arg.before)

----------------------------------------------------------------------------
(* The script with the checklist, step by step: the statuses of the steps,  *)
(* the errors list, the post-setup and the exit                              *)

\* const isRepo = SPRITE_NAME && REPO_USER && REPO_NAME
isRepo(env) == env.SPRITE_NAME # "" /\ env.REPO_USER # "" /\ env.REPO_NAME # ""

BaseSteps ==
    <<"clone dotfiles", "symlinks", "oh-my-zsh", "zsh-autosuggestions",
      "zsh-syntax-highlighting", "zsh theme", "asdf", "pnpm", "beads", "claude",
      "gh">>

\* [`clone ${REPO_NAME}`]
CloneStep(env) == IF env.REPO_NAME = "dotfiles" THEN "clone dotfiles" ELSE "clone repo"

\* Object.keys(steps): a key spread in that the object has already keeps
\* its place
steps(env) ==
    IF isRepo(env)
    THEN BaseSteps
         \o SelectSeq(<<CloneStep(env), "pnpm install", "beads init">>,
                      LAMBDA n : \A k \in 1..Len(BaseSteps) : BaseSteps[k] # n)
    ELSE BaseSteps

\* what the function of a step writes before it returns or throws; a gh
\* step that throws has failed in its one call, appendFileSync
stepWrites(name, env, st, threw) ==
    IF name = "claude" /\ env.CLAUDE_CODE_OAUTH_TOKEN # ""
    THEN [st EXCEPT !.secrets =
             appendFileSync(@, ExportLine("CLAUDE_CODE_OAUTH_TOKEN",
                                          env.CLAUDE_CODE_OAUTH_TOKEN))]
    ELSE IF name = "gh" /\ env.GITHUB_TOKEN # "" /\ ~threw
    THEN [st EXCEPT !.secrets = appendFileSync(@, ExportLine("GH_TOKEN", env.GITHUB_TOKEN))]
    ELSE st

updateStep(stepStatus, name, status) == [stepStatus EXCEPT ![name] = status]

\* a runStep that lets the error of the step end the loop
runStepEnd_Rethrow(r, names, env, threw) ==
    LET name == names[r.i]
    IN  [r EXCEPT !.stepStatus = updateStep(@, name, IF threw THEN "warn" ELSE "done"),
                  !.errors = IF threw THEN Append(@, [step |-> name, message |-> "failed"])
                             ELSE @,
                  !.st = stepWrites(name, env, @, threw),
                  !.i = IF threw THEN Len(names) + 1 ELSE @ + 1]

\* runStep from the call of fn on: fn returns or throws, the status and the
\* errors list follow, and the loop goes on to the next step
runStepEnd(r, names, env, threw) ==
    LET name == names[r.i]
    IN  [r EXCEPT !.stepStatus = updateStep(@, name, IF threw THEN "warn" ELSE "done"),
                  !.errors = IF threw THEN Append(@, [step |-> name, message |-> "failed"])
                             ELSE @,
                  !.st = stepWrites(name, env, @, threw),
                  !.i = @ + 1]

\* an exit that takes no notice of the errors list
exitOf_AlwaysReady(errors) == [code |-> 0, ready |-> TRUE]

\* if (errors.length > 0) { ...; process.exit(1) }; the ready message;
\* process.exit(0)
exitOf(errors) ==
    IF Len(errors) > 0 THEN [code |-> 1, ready |-> FALSE]
    ELSE [code |-> 0, ready |-> TRUE]

StepEnvs ==
    [SPRITE_NAME : {"", "sprite"}, GITHUB_TOKEN : {"ghp"},
     REPO_USER : {"", "user"}, REPO_NAME : {"", "repo", "dotfiles"},
     CLAUDE_CODE_OAUTH_TOKEN : {"", "oauth"}]

\* the keys of steps as a set
stepNames(env) == {steps(env)[k] : k \in 1..Len(steps(env))}

AllStepNames == UNION {stepNames(env) : env \in StepEnvs}

\* before main: stepStatus is an empty Map ("none" stands for no entry),
\* errors an empty array
StepsInit ==
    /\ Idle
    /\ arg \in [env : StepEnvs, before : {[secrets |-> NoFile, localenv |-> NoFile]}]
    /\ ret = [pc |-> "main", i |-> 1,
              stepStatus |-> [n \in AllStepNames |-> "none"], errors |-> <<>>,
              called |-> <<>>, st |-> arg.before, code |-> -1, ready |-> FALSE]

\* for (const name of Object.keys(steps)) stepStatus.set(name, "pending")
SetPending ==
    /\ ret.pc = "main"
    /\ ret' = [ret EXCEPT !.pc = "loop",
                          !.stepStatus = [n \in AllStepNames |->
                                             IF n \in stepNames(arg.env)
                                             THEN "pending" ELSE @[n]]]
    /\ UNCHANGED <<inst, arg>>

\* runStep up to the call of fn: updateStep(name, "running")
RunStepBegin ==
    /\ ret.pc = "loop"
    /\ ret.i <= Len(steps(arg.env))
    /\ LET name == steps(arg.env)[ret.i]
       IN  ret' = [ret EXCEPT !.pc = "fn",
                              !.stepStatus = updateStep(@, name, "running"),
                              !.called = Append(@, name)]
    /\ UNCHANGED <<inst, arg>>

RunStepEnd ==
    /\ ret.pc = "fn"
    /\ \E threw \in BOOLEAN :
          ret' = [runStepEnd(ret, steps(arg.env), arg.env, threw) EXCEPT !.pc = "loop"]
    /\ UNCHANGED <<inst, arg>>

\* after the loop: the sprite post-setup
SpritePostSetup ==
    /\ ret.pc = "loop"
    /\ ret.i > Len(steps(arg.env))
    /\ ret' = [ret EXCEPT !.pc = "errors",
                          !.st.localenv = IF arg.env.SPRITE_NAME # ""
                                          THEN PostSetup(arg.env, @) ELSE @]
    /\ UNCHANGED <<inst, arg>>

Exit ==
    /\ ret.pc = "errors"
    /\ ret' = [ret EXCEPT !.pc = "exited",
                          !.code = exitOf(ret.errors).code,
                          !.ready = exitOf(ret.errors).ready]
    /\ UNCHANGED <<inst, arg>>

NextSteps == SetPending \/ RunStepBegin \/ RunStepEnd \/ SpritePostSetup \/ Exit

SpecSteps == StepsInit /\ [][NextSteps]_vars

\* the steps of the errors list, in its order
ErrorSteps == [k \in 1..Len(ret.errors) |-> ret.errors[k].step]

LoopEnded == ret.pc \in {"errors", "exited"} \/ (ret.pc = "loop" /\ ret.i > Len(steps(arg.env)))

\* C24: the functions of the steps are called in the order of definition,
\* each once, whether or not earlier ones threw; a status moves only from
\* pending to running and from running to done or warn; no two steps are
\* running at once; and once the loop has ended every step is done or warn.
C24_StepOrder ==
    /\ [](/\ Cardinality({n \in AllStepNames : ret.stepStatus[n] = "running"}) <= 1
          /\ ret.called = SubSeq(steps(arg.env), 1, Len(ret.called))
          /\ LoopEnded =>
                (/\ ret.called = steps(arg.env)
                 /\ \A n \in stepNames(arg.env) :
                       ret.stepStatus[n] \in {"done", "warn"}))
    /\ [][\A n \in AllStepNames :
             ret'.stepStatus[n] # ret.stepStatus[n] =>
                \/ ret.stepStatus[n] = "none" /\ ret'.stepStatus[n] = "pending"
                \/ ret.stepStatus[n] = "pending" /\ ret'.stepStatus[n] = "running"
                \/ ret.stepStatus[n] = "running"
                      /\ ret'.stepStatus[n] \in {"done", "warn"}]_vars

\* the loop has ended after the second step threw and the last one returned
C24_Witness ==
    /\ LoopEnded
    /\ ret.stepStatus["symlinks"] = "warn"
    /\ ret.stepStatus["beads init"] = "done"

\* C25: the errors list names the steps whose status is warn, each once, in
\* the order they ran; the process exits with 1 and no ready message exactly
\* when the list is not empty, and with 0 and the ready message otherwise;
\* with SPRITE_NAME set the post-setup has written ~/.localenv either way.
C25_ErrorsAndExit ==
    /\ ErrorSteps = SelectSeq(ret.called, LAMBDA n : ret.stepStatus[n] = "warn")
    /\ ret.pc = "exited" =>
          /\ (ret.code = 1 /\ ~ret.ready) <=> Len(ret.errors) > 0
          /\ (ret.code = 0 /\ ret.ready) <=> Len(ret.errors) = 0
          /\ arg.env.SPRITE_NAME # "" =>
                ret.st.localenv = PostSetup(arg.env, arg.before.localenv)

\* a sprite run has exited with 1 after two steps failed
C25_Witness ==
    /\ ret.pc = "exited" /\ ret.code = 1
    /\ arg.env.SPRITE_NAME # ""
    /\ ErrorSteps = <<"oh-my-zsh", "pnpm">>
    /\ ret.st.localenv.exists

----------------------------------------------------------------------------
(* The status line script: renderProgressBar and getActiveSkill *)

width == 10

\* Math.round of the quotient n / d of integers, d positive: the nearest
\* integer, a half going up
RoundDiv(n, d) == (2 * n + d) \div (2 * d)

\* a timeMarkerPosition is <<>> for null and <<v>> for the number v
\* const timePos = timeMarkerPosition !== null
\*    ? Math.round((timeMarkerPosition / 100) * width) : null
timePosOf(timeMarkerPosition) ==
    IF timeMarkerPosition = <<>> THEN <<>>
    ELSE <<RoundDiv(timeMarkerPosition[1] * width, 100)>>

\* the bar as its segments, one for every i of the loop: whether it is the
\* filled character and whether the combining caron follows it
renderProgressBar(percentage, timeMarkerPosition) ==
    LET filled == RoundDiv(percentage * width, 100)
        timePos == timePosOf(timeMarkerPosition)
    IN  [k \in 1..width |->
            LET i == k - 1
            IN  [isFilled |-> i < filled,
                 marker |-> timePos # <<>> /\ i = timePos[1] /\ timePos[1] < width]]

\* how far below 0 and above 100 the percentages and positions tried go
PercentSlack == 12

Percents == (0 - PercentSlack)..(100 + PercentSlack)

BarInit ==
    /\ Idle
    /\ arg \in [percentage : Percents,
                timeMarkerPosition : {<<>>} \cup {<<v>> : v \in Percents}]
    /\ ret = [done |-> FALSE, val |-> <<>>]

RenderBar ==
    /\ ~ret.done
    /\ ret' = [done |-> TRUE,
               val |-> renderProgressBar(arg.percentage, arg.timeMarkerPosition)]
    /\ UNCHANGED <<inst, arg>>

SpecBar == BarInit /\ [][RenderBar]_vars

Min(a, b) == IF a < b THEN a ELSE b
Max(a, b) == IF a > b THEN a ELSE b

\* C27: the bar has ten segments, the first min(10, max(0, round(percentage /
\* 10))) of them filled and the others empty; with a timeMarkerPosition in
\* 0..100 exactly one segment carries the marker, with null none does.
C27_BarShape ==
    ret.done =>
       LET n == Min(10, Max(0, RoundDiv(arg.percentage, 10)))
           marked == {k \in DOMAIN ret.val : ret.val[k].marker}
       IN  /\ Len(ret.val) = 10
           /\ \A k \in DOMAIN ret.val : ret.val[k].isFilled <=> k <= n
           /\ arg.timeMarkerPosition = <<>> => marked = {}
           /\ (arg.timeMarkerPosition # <<>> /\ arg.timeMarkerPosition[1] \in 0..100)
                 => Cardinality(marked) = 1

\* A string content is a sequence of atoms: OPEN is "<command-name>", CLOSE
\* is "</command-name>", the others are single characters other than "<"
OPEN == "<command-name>"
CLOSE == "</command-name>"

\* content.match(/<command-name>\/([^<]+)<\/command-name>/) at position k:
\* <<>> when the expression does not match there, else <<match[1]>>
MatchAt(text, k) ==
    IF k + 1 > Len(text) \/ text[k] # OPEN \/ text[k + 1] # SLASH THEN <<>>
    ELSE LET ends == {j \in (k + 3)..Len(text) :
                         /\ text[j] = CLOSE
                         /\ \A m \in (k + 2)..(j - 1) : text[m] \notin {OPEN, CLOSE}}
         IN  IF ends = {} THEN <<>>
             ELSE LET j == CHOOSE e \in ends : TRUE
                  IN  <<SubSeq(text, k + 2, j - 1)>>

\* the leftmost match
CommandNameMatch(text) ==
    LET at == {k \in 1..Len(text) : MatchAt(text, k) # <<>>}
    IN  IF at = {} THEN <<>>
        ELSE MatchAt(text, CHOOSE k \in at : \A j \in at : k <= j)

\* for (const item of content): a skill is <<>> for null, else <<name>>
RECURSIVE ItemsSkill(_, _)
ItemsSkill(lastSkill, items) ==
    IF items = <<>> THEN lastSkill
    ELSE LET item == Head(items)
         IN  ItemsSkill(IF item.type = "tool_use" /\ item.name = "Skill"
                           /\ item.skill # <<>>
                        THEN <<item.skill>> ELSE lastSkill,
                        Tail(items))

\* a body of the loop over the lines that keeps the first skill found
LineSkill_KeepFirst(lastSkill, line) ==
    IF ~line.json \/ lastSkill # <<>> THEN lastSkill
    ELSE LET match == IF line.type = "user" /\ line.content.str
                      THEN CommandNameMatch(line.content.text) ELSE <<>>
             s1 == IF match # <<>> THEN match ELSE lastSkill
         IN  IF line.content.str THEN s1 ELSE ItemsSkill(s1, line.content.items)

\* the body of the loop over the lines: JSON.parse throws on a line that is
\* not JSON and the catch leaves lastSkill as it is
LineSkill(lastSkill, line) ==
    IF ~line.json THEN lastSkill
    ELSE LET match == IF line.type = "user" /\ line.content.str
                      THEN CommandNameMatch(line.content.text) ELSE <<>>
             s1 == IF match # <<>> THEN match ELSE lastSkill
         IN  IF line.content.str THEN s1 ELSE ItemsSkill(s1, line.content.items)

RECURSIVE LinesSkill(_, _)
LinesSkill(lastSkill, lines) ==
    IF lines = <<>> THEN lastSkill
    ELSE LinesSkill(LineSkill(lastSkill, Head(lines)), Tail(lines))

\* a transcript is the path given, whether readFileSync can read it, and
\* the lines of the file
getActiveSkill(transcript) ==
    IF transcript.path = "" THEN <<>>
    ELSE IF ~transcript.readable THEN <<>>
    ELSE LinesSkill(<<>>, transcript.lines)

\* most lines in a transcript
MaxLines == 2

StringContents ==
    {<<>>, <<"t">>,
     <<OPEN, SLASH, "a", CLOSE>>,
     <<"t", OPEN, SLASH, "b", "a", CLOSE, "t">>,
     <<OPEN, SLASH, CLOSE>>,
     <<OPEN, "a", CLOSE>>,
     <<OPEN, SLASH, "a", OPEN, SLASH, "b", CLOSE>>,
     <<OPEN, SLASH, "a">>}

Items ==
    {[type |-> "tool_use", name |-> "Skill", skill |-> <<"c">>],
     [type |-> "tool_use", name |-> "Skill", skill |-> <<"d">>],
     [type |-> "tool_use", name |-> "Skill", skill |-> <<>>],
     [type |-> "tool_use", name |-> "Bash", skill |-> <<"c">>],
     [type |-> "text", name |-> "Skill", skill |-> <<"d">>]}

StringContent(text) == [str |-> TRUE, text |-> text, items |-> <<>>]
ArrayContent(items) == [str |-> FALSE, text |-> <<>>, items |-> items]

TranscriptLines ==
    {[json |-> FALSE, type |-> "", content |-> ArrayContent(<<>>)]}
    \cup {[json |-> TRUE, type |-> "user", content |-> StringContent(t)] :
             t \in StringContents}
    \cup {[json |-> TRUE, type |-> "assistant", content |-> StringContent(t)] :
             t \in {<<"t">>, <<OPEN, SLASH, "a", CLOSE>>}}
    \cup {[json |-> TRUE, type |-> "assistant", content |-> ArrayContent(is)] :
             is \in Strings(Items, 0, 2)}
    \cup {[json |-> TRUE, type |-> "user", content |-> ArrayContent(<<i>>)] :
             i \in Items}

Transcripts ==
    {[path |-> "", readable |-> FALSE, lines |-> <<>>],
     [path |-> "p", readable |-> FALSE, lines |-> <<>>]}
    \cup {[path |-> "p", readable |-> TRUE, lines |-> ls] :
             ls \in Strings(TranscriptLines, 0, MaxLines)}

SkillInit ==
    /\ Idle
    /\ arg \in Transcripts
    /\ ret = [done |-> FALSE, val |-> <<>>]

ActiveSkill ==
    /\ ~ret.done
    /\ ret' = [done |-> TRUE, val |-> getActiveSkill(arg)]
    /\ UNCHANGED <<inst, arg>>

SpecSkill == SkillInit /\ [][ActiveSkill]_vars

\* the names between "<command-name>/" and "</command-name>" in a text
TagNames(text) ==
    {n \in {SubSeq(text, i, j) : i, j \in 1..Len(text)} :
        /\ n # <<>>
        /\ \A k \in 1..Len(n) : n[k] \notin {OPEN, CLOSE}
        /\ includes(text, <<OPEN, SLASH>> \o n \o <<CLOSE>>)}

\* the skills that item k of line l invokes: for a user entry with a string
\* content (k = 0) the names its tags give, for an item of an array content
\* its input.skill
Invoked(l, k) ==
    LET line == arg.lines[l]
    IN  IF ~line.json THEN {}
        ELSE IF line.content.str
        THEN IF k = 0 /\ line.type = "user" THEN TagNames(line.content.text) ELSE {}
        ELSE IF k \in 1..Len(line.content.items)
                /\ line.content.items[k].type = "tool_use"
                /\ line.content.items[k].name = "Skill"
                /\ line.content.items[k].skill # <<>>
        THEN {line.content.items[k].skill}
        ELSE {}

Places == {<<l, k>> \in (1..Len(arg.lines)) \X (0..2) : Invoked(l, k) # {}}

Later(p, q) == p[1] > q[1] \/ (p[1] = q[1] /\ p[2] >= q[2])

\* C26: getActiveSkill returns the skill of the last invocation in the order
\* of the lines and of the items within a line, lines that are not JSON
\* counting for nothing, and null when the path is empty, the file cannot be
\* read or there is no invocation.
C26_LastSkill ==
    ret.done =>
       IF arg.path = "" \/ ~arg.readable \/ Places = {} THEN ret.val = <<>>
       ELSE LET p == CHOOSE q \in Places : \A o \in Places : Later(q, o)
            IN  ret.val # <<>> /\ ret.val[1] \in Invoked(p[1], p[2])

\* a transcript with a command tag, then a line that is not JSON, has given
\* the name in the tag
C26_Witness ==
    /\ ret.done /\ ret.val = <<<<"b", "a">>>>
    /\ Len(arg.lines) = 2
    /\ ~arg.lines[2].json

----------------------------------------------------------------------------
(* setup-vercel-domain: the commands it runs, the calls to the Porkbun API, *)
(* what it prints and how it exits                                          *)

\* porkbun(endpoint, data): "missing" when a key is not set, "api" when the
\* request fails or the status is not SUCCESS, else "ok"
porkbun(env, apiOk) ==
    IF env.PORKBUN_API_KEY = "" \/ env.PORKBUN_SECRET_KEY = "" THEN "missing"
    ELSE IF ~apiOk THEN "api"
    ELSE "ok"

\* main().catch: the error message and process.exit(1)
Caught(r) == [r EXCEPT !.pc = "exited", !.error = TRUE, !.code = 1]

\* the arguments, the environment, whether each command succeeds, whether
\* the inspect output holds a _vercel TXT record, and whether each of the
\* three API calls succeeds
VercelInit ==
    /\ Idle
    /\ arg \in [repo : {"", "r"}, domain : {"", "d"},
                env : [PORKBUN_API_KEY : {"", "k"}, PORKBUN_SECRET_KEY : {"", "s"}],
                link : BOOLEAN, add : BOOLEAN, inspect : BOOLEAN,
                verification : BOOLEAN, api : [{"TXT", "CNAME", "A"} -> BOOLEAN]]
    /\ ret = [pc |-> "args", error |-> FALSE, success |-> FALSE, code |-> -1,
              created |-> {}]

\* if (!repo || !domain) { usage; process.exit(1) }
CheckArgs ==
    /\ ret.pc = "args"
    /\ ret' = IF arg.repo = "" \/ arg.domain = ""
              THEN [ret EXCEPT !.pc = "exited", !.error = TRUE, !.code = 1]
              ELSE [ret EXCEPT !.pc = "link"]
    /\ UNCHANGED <<inst, arg>>

\* run(`vercel link ...`): execSync throws when the command fails
LinkProject ==
    /\ ret.pc = "link"
    /\ ret' = IF arg.link THEN [ret EXCEPT !.pc = "add"] ELSE Caught(ret)
    /\ UNCHANGED <<inst, arg>>

\* try { run(`vercel domains add`) } catch { continuing }
AddDomain ==
    /\ ret.pc = "add"
    /\ ret' = [ret EXCEPT !.pc = "inspect"]
    /\ UNCHANGED <<inst, arg>>

InspectDomain ==
    /\ ret.pc = "inspect"
    /\ ret' = IF arg.inspect THEN [ret EXCEPT !.pc = "txt"] ELSE Caught(ret)
    /\ UNCHANGED <<inst, arg>>

\* if (verification) await porkbun(...): outside any try
TxtRecord ==
    /\ ret.pc = "txt"
    /\ ret' = IF ~arg.verification THEN [ret EXCEPT !.pc = "cname"]
              ELSE IF porkbun(arg.env, arg.api["TXT"]) = "ok"
              THEN [ret EXCEPT !.pc = "cname", !.created = @ \cup {"TXT"}]
              ELSE Caught(ret)
    /\ UNCHANGED <<inst, arg>>

\* try { await porkbun(CNAME) } catch (e) { continuing }
CnameRecord ==
    /\ ret.pc = "cname"
    /\ ret' = [ret EXCEPT !.pc = "a",
                          !.created = IF porkbun(arg.env, arg.api["CNAME"]) = "ok"
                                      THEN @ \cup {"CNAME"} ELSE @]
    /\ UNCHANGED <<inst, arg>>

\* try { await porkbun(A) } catch (e) { continuing }; the Done! message;
\* main resolves and the process ends with status 0
ARecord ==
    /\ ret.pc = "a"
    /\ ret' = [ret EXCEPT !.pc = "exited", !.success = TRUE, !.code = 0,
                          !.created = IF porkbun(arg.env, arg.api["A"]) = "ok"
                                      THEN @ \cup {"A"} ELSE @]
    /\ UNCHANGED <<inst, arg>>

NextVercel ==
    CheckArgs \/ LinkProject \/ AddDomain \/ InspectDomain \/ TxtRecord
       \/ CnameRecord \/ ARecord

SpecVercel == VercelInit /\ [][NextVercel]_vars

\* C29: a run that ends with the Done! message and status 0 had both Porkbun
\* keys; a run with PORKBUN_API_KEY or PORKBUN_SECRET_KEY not set ends with
\* an error message and status 1, with or without a _vercel TXT record in
\* the inspect output.
C29_NeedsCredentials ==
    (ret.pc = "exited"
       /\ (arg.env.PORKBUN_API_KEY = "" \/ arg.env.PORKBUN_SECRET_KEY = ""))
       => (ret.error /\ ret.code = 1 /\ ~ret.success)

----------------------------------------------------------------------------
(* appendIfMissing on its own, called again and again on one file *)

\* longest file content, in words
MaxFileLen == 4
\* most calls in one behaviour
MaxCalls == 2

AppendInit ==
    /\ Idle
    /\ arg \in [file : {NoFile} \cup {[exists |-> TRUE, text |-> t] :
                                        t \in Strings({"l", "x", NL}, 0, MaxFileLen)},
                line : {<<"l">>, <<"x", "l">>}]
    /\ ret = [done |-> FALSE, val |-> [calls |-> 0, file |-> arg.file]]

AppendCall ==
    /\ ret.val.calls < MaxCalls
    /\ ret' = [done |-> TRUE,
               val |-> [calls |-> ret.val.calls + 1,
                        file |-> appendIfMissing(ret.val.file, arg.line)]]
    /\ UNCHANGED <<inst, arg>>

SpecAppend == AppendInit /\ [][AppendCall]_vars

\* text has a complete line equal to line: it starts the text or follows
\* a newline, and a newline or the end of the text follows it
HasLine(text, line) ==
    \E k \in 0..(Len(text) - Len(line)) :
       /\ SubSeq(text, k + 1, k + Len(line)) = line
       /\ (k = 0 \/ text[k] = NL)
       /\ (k + Len(line) = Len(text) \/ text[k + Len(line) + 1] = NL)

\* C30: after any number of calls the file has a complete line equal to
\* line; a file that had one before is as it was; and the calls together
\* have appended the line at most once.
C30_AppendOnce ==
    ret.done =>
       /\ HasLine(ret.val.file.text, arg.line)
       /\ HasLine(arg.file.text, arg.line) => ret.val.file = arg.file
       /\ ret.val.file.text \in {arg.file.text, arg.file.text \o arg.line \o <<NL>>}

====
